---- MODULE Spec2Model ----
(***************************************************************************)
(* Model of ndn::MPRList (ndn-cxx/mpr-list.hpp, ndn-cxx/mpr-list.cpp):     *)
(* a vector of Delegations {preference, name} with a sortedness flag, its  *)
(* insert / erase / sort mutators and its TLV wire codec.                  *)
(***************************************************************************)
EXTENDS Integers, Sequences, FiniteSets, Bags, TLC

(***************************************************************************)
(* Bounds of the model.                                                    *)
(***************************************************************************)
\* longest delegation vector the mutators are allowed to build
MaxLen == 3
\* longest initializer list given to the constructor
MaxInit == 2
\* most children in a block received from the network
MaxKids == 2

(***************************************************************************)
(* TLV-TYPE numbers (ndn-cxx/encoding/tlv.hpp).                            *)
(***************************************************************************)
tlv_Name == 7
tlv_GenericNameComponent == 8
tlv_Content == 21
tlv_LinkPreference == 30
tlv_LinkDelegation == 31
tlv_MPRList == 128

(***************************************************************************)
(* Delegation and its ordering.                                            *)
(***************************************************************************)
\* the preferences used: a one-byte and a two-byte nonNegativeInteger
Prefs == {0, 256}

\* a Name is a sequence of components, a component a sequence of bytes
\* the names used are "/" and "/%01"
Names == {<<>>, << <<1>> >>}

Delegation == [preference : Prefs, name : Names]

\* lexicographic three-way comparison of two byte strings
RECURSIVE BytesCompare(_, _)
BytesCompare(a, b) ==
  IF a = <<>> THEN (IF b = <<>> THEN 0 ELSE -1)
  ELSE IF b = <<>> THEN 1
  ELSE IF Head(a) < Head(b) THEN -1
  ELSE IF Head(a) > Head(b) THEN 1
  ELSE BytesCompare(Tail(a), Tail(b))

\* name::Component::compare: shorter first, then bytewise
ComponentCompare(a, b) ==
  IF Len(a) < Len(b) THEN -1
  ELSE IF Len(a) > Len(b) THEN 1
  ELSE BytesCompare(a, b)

\* Name::compare: canonical order, component by component, a prefix first
RECURSIVE NameCompare(_, _)
NameCompare(a, b) ==
  IF a = <<>> THEN (IF b = <<>> THEN 0 ELSE -1)
  ELSE IF b = <<>> THEN 1
  ELSE IF ComponentCompare(Head(a), Head(b)) # 0
       THEN ComponentCompare(Head(a), Head(b))
  ELSE NameCompare(Tail(a), Tail(b))

\* operator<(Delegation, Delegation): preference, then name
DelegationLess(a, b) ==
  \/ a.preference < b.preference
  \/ a.preference = b.preference /\ NameCompare(a.name, b.name) < 0

DelegationLessEq(a, b) == ~DelegationLess(b, a)

\* operator==(Delegation, Delegation): the same preference and name
DelegationEq(a, b) == a.preference = b.preference /\ a.name = b.name

(***************************************************************************)
(* optional<uint64_t>                                                      *)
(***************************************************************************)
nullopt == [has |-> FALSE, value |-> 0]
some(v) == [has |-> TRUE, value |-> v]

(***************************************************************************)
(* The private helpers of MPRList.                                         *)
(***************************************************************************)
isValidTlvType(type) == type \in {tlv_Content, tlv_MPRList}

\* faulty variant: the search compares the preferences alone
RECURSIVE upper_boundByPreference(_, _, _, _)
upper_boundByPreference(dels, first, count, del) ==
  IF count <= 0 THEN first
  ELSE LET step == count \div 2
           it == first + step
       IN IF ~(del.preference < dels[it].preference)
          THEN upper_boundByPreference(dels, it + 1, count - (step + 1), del)
          ELSE upper_boundByPreference(dels, first, step, del)

\* std::upper_bound(first, first + count, del): binary search for the first
\* position whose element is greater than del (1-based index)
RECURSIVE upper_bound(_, _, _, _)
upper_bound(dels, first, count, del) ==
  IF count <= 0 THEN first
  ELSE LET step == count \div 2
           it == first + step
       IN IF ~DelegationLess(del, dels[it])
          THEN upper_bound(dels, it + 1, count - (step + 1), del)
          ELSE upper_bound(dels, first, step, del)

\* vector::insert(pos, del)
VectorInsert(dels, pos, del) ==
  SubSeq(dels, 1, pos - 1) \o <<del>> \o SubSeq(dels, pos, Len(dels))

\* faulty variant: appends whatever the flag says
insertImplAppendAlways(dels, isSorted, preference, name) ==
  Append(dels, [preference |-> preference, name |-> name])

\* faulty variant: std::lower_bound, before the entries that compare equal
insertImplLowerBound(dels, isSorted, preference, name) ==
  LET del == [preference |-> preference, name |-> name]
      before == {i \in 1..Len(dels) : DelegationLess(dels[i], del)}
  IN IF ~isSorted THEN Append(dels, del)
     ELSE VectorInsert(dels, Cardinality(before) + 1, del)

\* faulty variant: std::upper_bound whatever the flag says
insertImplIgnoresFlag(dels, isSorted, preference, name) ==
  LET del == [preference |-> preference, name |-> name]
  IN VectorInsert(dels, upper_bound(dels, 1, Len(dels), del), del)

insertImpl(dels, isSorted, preference, name) ==
  LET del == [preference |-> preference, name |-> name]
  IN IF ~isSorted
     THEN Append(dels, del)
     ELSE VectorInsert(dels, upper_bound(dels, 1, Len(dels), del), del)

\* the loop of eraseImpl from position i on; nErased counts the erasures
RECURSIVE eraseLoop(_, _, _, _, _)
eraseLoop(dels, i, nErased, preference, name) ==
  IF i > Len(dels) THEN [dels |-> dels, nErased |-> nErased]
  ELSE IF (~preference.has \/ dels[i].preference = preference.value)
          /\ dels[i].name = name
       THEN eraseLoop(SubSeq(dels, 1, i - 1) \o SubSeq(dels, i + 1, Len(dels)),
                      i, nErased + 1, preference, name)
       ELSE eraseLoop(dels, i + 1, nErased, preference, name)

\* faulty variant: stops after the first erasure
eraseImplFirstOnly(dels, preference, name) ==
  LET hit == {i \in 1..Len(dels) :
                (~preference.has \/ dels[i].preference = preference.value)
                /\ dels[i].name = name}
      k == CHOOSE i \in hit : \A j \in hit : i <= j
  IN IF hit = {} THEN [dels |-> dels, nErased |-> 0]
     ELSE [dels |-> SubSeq(dels, 1, k - 1) \o SubSeq(dels, k + 1, Len(dels)),
           nErased |-> 1]

\* faulty variant: the preference is not compared
eraseImplIgnorePreference(dels, preference, name) ==
  eraseLoop(dels, 1, 0, nullopt, name)

eraseImpl(dels, preference, name) == eraseLoop(dels, 1, 0, preference, name)

(***************************************************************************)
(* The public mutators.                                                    *)
(***************************************************************************)
InsertConflictResolution == {"INS_REPLACE", "INS_APPEND", "INS_SKIP"}

\* faulty variant: REPLACE erases only the entries equal in preference too
insertReplaceSamePreference(dels, isSorted, preference, name, onConflict) ==
  IF onConflict = "INS_REPLACE"
  THEN [dels |-> insertImpl(eraseImpl(dels, some(preference), name).dels, isSorted,
                            preference, name),
        ret |-> TRUE]
  ELSE IF onConflict = "INS_APPEND"
  THEN [dels |-> insertImpl(dels, isSorted, preference, name), ret |-> TRUE]
  ELSE IF ~(\E i \in 1..Len(dels) : dels[i].name = name)
       THEN [dels |-> insertImpl(dels, isSorted, preference, name), ret |-> TRUE]
       ELSE [dels |-> dels, ret |-> FALSE]

\* faulty variant: SKIP looks for the same name and preference
insertSkipNever(dels, isSorted, preference, name, onConflict) ==
  IF onConflict = "INS_REPLACE"
  THEN [dels |-> insertImpl(eraseImpl(dels, nullopt, name).dels, isSorted,
                            preference, name),
        ret |-> TRUE]
  ELSE IF onConflict = "INS_APPEND"
  THEN [dels |-> insertImpl(dels, isSorted, preference, name), ret |-> TRUE]
  ELSE IF ~(\E i \in 1..Len(dels) :
              dels[i].name = name /\ dels[i].preference = preference)
       THEN [dels |-> insertImpl(dels, isSorted, preference, name), ret |-> TRUE]
       ELSE [dels |-> dels, ret |-> FALSE]

\* faulty variant: APPEND drops an entry the list already holds
insertAppendSkipsEqual(dels, isSorted, preference, name, onConflict) ==
  IF onConflict = "INS_REPLACE"
  THEN [dels |-> insertImpl(eraseImpl(dels, nullopt, name).dels, isSorted,
                            preference, name),
        ret |-> TRUE]
  ELSE IF onConflict = "INS_APPEND"
  THEN [dels |-> IF \E i \in 1..Len(dels) :
                      dels[i] = [preference |-> preference, name |-> name]
                 THEN dels
                 ELSE insertImpl(dels, isSorted, preference, name),
        ret |-> TRUE]
  ELSE IF ~(\E i \in 1..Len(dels) : dels[i].name = name)
       THEN [dels |-> insertImpl(dels, isSorted, preference, name), ret |-> TRUE]
       ELSE [dels |-> dels, ret |-> FALSE]

\* MPRList::insert(preference, name, onConflict): the vector afterwards and
\* the value returned
insert(dels, isSorted, preference, name, onConflict) ==
  IF onConflict = "INS_REPLACE"
  THEN [dels |-> insertImpl(eraseImpl(dels, nullopt, name).dels, isSorted,
                            preference, name),
        ret |-> TRUE]
  ELSE IF onConflict = "INS_APPEND"
  THEN [dels |-> insertImpl(dels, isSorted, preference, name), ret |-> TRUE]
  ELSE IF ~(\E i \in 1..Len(dels) : dels[i].name = name)
       THEN [dels |-> insertImpl(dels, isSorted, preference, name), ret |-> TRUE]
       ELSE [dels |-> dels, ret |-> FALSE]

\* the re-insertion loop of sort(): the entries of dels from position i on are
\* inserted, in order, into acc, with m_isSorted already true
RECURSIVE sortLoop(_, _, _)
sortLoop(acc, dels, i) ==
  IF i > Len(dels) THEN acc
  ELSE sortLoop(insertImpl(acc, TRUE, dels[i].preference, dels[i].name),
                dels, i + 1)

\* faulty variant: sets the flag and leaves the vector as it is
sortFlagOnly(dels, isSorted) == [dels |-> dels, isSorted |-> TRUE]

\* faulty variant: no early return, and the vector is copied, not swapped out
sortReinsertsCopy(dels, isSorted) ==
  [dels |-> sortLoop(dels, dels, 1), isSorted |-> TRUE]

\* MPRList::sort(): the vector and the flag afterwards
sort(dels, isSorted) ==
  IF isSorted THEN [dels |-> dels, isSorted |-> isSorted]
  ELSE [dels |-> sortLoop(<<>>, dels, 1), isSorted |-> TRUE]

\* faulty variant: the entries are inserted with INS_SKIP
RECURSIVE constructLoopSkip(_, _, _)
constructLoopSkip(acc, init, i) ==
  IF i > Len(init) THEN acc
  ELSE constructLoopSkip(insert(acc, TRUE, init[i].preference, init[i].name,
                                "INS_SKIP").dels,
                         init, i + 1)

\* the loop of the initializer-list constructor
RECURSIVE constructLoop(_, _, _)
constructLoop(acc, init, i) ==
  IF i > Len(init) THEN acc
  ELSE constructLoop(insert(acc, TRUE, init[i].preference, init[i].name,
                            "INS_REPLACE").dels,
                     init, i + 1)

\* operator==(MPRList, MPRList): the vectors are equal, the flags are not
\* compared
operatorEq(lhs, rhs) ==
  /\ Len(lhs) = Len(rhs)
  /\ \A i \in 1..Len(lhs) : DelegationEq(lhs[i], rhs[i])

(***************************************************************************)
(* TLV primitives the codec is written over (ndn-cxx/encoding): a buffer   *)
(* is a sequence of bytes, an encoder prepends to it.                      *)
(***************************************************************************)
\* the bytes of a TLV-TYPE or TLV-LENGTH number
VarNumber(n) ==
  IF n < 253 THEN <<n>> ELSE <<253, n \div 256, n % 256>>

\* the bytes of a nonNegativeInteger: 1, 2, 4 or 8 bytes, big endian
NonNegativeInteger(n) ==
  IF n < 256 THEN <<n>>
  ELSE IF n < 65536 THEN <<n \div 256, n % 256>>
  ELSE <<(n \div 16777216) % 256, (n \div 65536) % 256, (n \div 256) % 256, n % 256>>

\* EncodingImpl<TAG>: the estimator only counts, the encoder also holds bytes
NewEncoder(tag) == [tag |-> tag, buf |-> <<>>]

\* prepend bytes to the encoder: [enc, len]
prependBytes(encoder, bytes) ==
  [enc |-> IF encoder.tag = "EncoderTag"
           THEN [encoder EXCEPT !.buf = bytes \o @]
           ELSE encoder,
   len |-> Len(bytes)]

prependVarNumber(encoder, n) == prependBytes(encoder, VarNumber(n))

\* a whole TLV element as bytes
Tlv(type, value) == VarNumber(type) \o VarNumber(Len(value)) \o value

RECURSIVE Concat(_)
Concat(seqs) == IF seqs = <<>> THEN <<>> ELSE Head(seqs) \o Concat(Tail(seqs))

\* Name::wireEncode(encoder): the Name element, one GenericNameComponent each
NameWire(name) ==
  Tlv(tlv_Name,
      Concat([i \in 1..Len(name) |-> Tlv(tlv_GenericNameComponent, name[i])]))

Name_wireEncode(encoder, name) == prependBytes(encoder, NameWire(name))

prependNonNegativeIntegerBlock(encoder, type, n) ==
  prependBytes(encoder, Tlv(type, NonNegativeInteger(n)))

\* read a TLV-TYPE or TLV-LENGTH number at position pos of bytes
readVarNumber(bytes, pos) ==
  IF pos > Len(bytes) THEN [ok |-> FALSE, value |-> 0, next |-> pos]
  ELSE IF bytes[pos] < 253
       THEN [ok |-> TRUE, value |-> bytes[pos], next |-> pos + 1]
  ELSE IF bytes[pos] = 253 /\ pos + 2 <= Len(bytes)
       THEN [ok |-> TRUE, value |-> bytes[pos + 1] * 256 + bytes[pos + 2],
             next |-> pos + 3]
  ELSE [ok |-> FALSE, value |-> 0, next |-> pos]

\* Block::type() and the TLV-VALUE of a block held as its bytes
Block_type(block) == readVarNumber(block, 1).value

Block_value(block) ==
  LET t == readVarNumber(block, 1)
      l == readVarNumber(block, t.next)
  IN SubSeq(block, l.next, Len(block))

\* Block::parse(): the sub-elements of a TLV-VALUE, from position pos on;
\* ok is false when an element is truncated (tlv::Error)
RECURSIVE parseFrom(_, _, _)
parseFrom(value, pos, acc) ==
  IF pos > Len(value) THEN [ok |-> TRUE, elements |-> acc]
  ELSE LET t == readVarNumber(value, pos)
           l == readVarNumber(value, t.next)
           end == l.next + l.value - 1
       IN IF ~t.ok \/ ~l.ok \/ end > Len(value)
          THEN [ok |-> FALSE, elements |-> acc]
          ELSE parseFrom(value, end + 1, Append(acc, SubSeq(value, pos, end)))

Block_parse(block) == parseFrom(Block_value(block), 1, <<>>)

\* readNonNegativeInteger(block): tlv::Error unless 1, 2, 4 or 8 bytes long
RECURSIVE BigEndian(_, _)
BigEndian(bytes, acc) ==
  IF bytes = <<>> THEN acc ELSE BigEndian(Tail(bytes), acc * 256 + Head(bytes))

readNonNegativeInteger(block) ==
  LET v == Block_value(block)
  IN IF Len(v) \in {1, 2, 4, 8}
     THEN [ok |-> TRUE, value |-> BigEndian(v, 0)]
     ELSE [ok |-> FALSE, value |-> 0]

\* Name::wireDecode(block): the components' values; tlv::Error when the
\* block does not parse
Name_wireDecode(block) ==
  LET p == Block_parse(block)
  IN [ok |-> p.ok,
      name |-> [i \in 1..Len(p.elements) |-> Block_value(p.elements[i])]]

(***************************************************************************)
(* The codec.                                                              *)
(***************************************************************************)
EncodingTag == {"EncoderTag", "EstimatorTag"}

\* one round of the loop of wireEncode, for the delegation del: [enc, len]
encodeDelegation(encoder, del) ==
  LET n == Name_wireEncode(encoder, del.name)
      p == prependNonNegativeIntegerBlock(n.enc, tlv_LinkPreference, del.preference)
      l == prependVarNumber(p.enc, n.len + p.len)
      t == prependVarNumber(l.enc, tlv_LinkDelegation)
  IN [enc |-> t.enc, len |-> n.len + p.len + l.len + t.len]

\* the loop of wireEncode over rbegin..rend: position i counts down to 1
RECURSIVE encodeLoop(_, _, _, _)
encodeLoop(encoder, dels, i, totalLen) ==
  IF i < 1 THEN [enc |-> encoder, len |-> totalLen]
  ELSE LET d == encodeDelegation(encoder, dels[i])
       IN encodeLoop(d.enc, dels, i - 1, totalLen + d.len)

\* faulty variant of the loop: first to last
RECURSIVE encodeLoopForward(_, _, _, _)
encodeLoopForward(encoder, dels, i, totalLen) ==
  IF i < 1 THEN [enc |-> encoder, len |-> totalLen]
  ELSE LET d == encodeDelegation(encoder, dels[Len(dels) + 1 - i])
       IN encodeLoopForward(d.enc, dels, i - 1, totalLen + d.len)

\* faulty variant: the loop runs begin..end
wireEncodeForward(dels, tag, type) ==
  IF ~isValidTlvType(type)
  THEN [err |-> "invalid_argument", what |-> "Unexpected TLV-TYPE",
        buf |-> <<>>, totalLen |-> 0]
  ELSE IF Len(dels) = 0
  THEN [err |-> "Error", what |-> "Empty MPRList", buf |-> <<>>, totalLen |-> 0]
  ELSE LET body == encodeLoopForward(NewEncoder(tag), dels, Len(dels), 0)
           l == prependVarNumber(body.enc, body.len)
           t == prependVarNumber(l.enc, type)
       IN [err |-> "none", what |-> "", buf |-> t.enc.buf,
           totalLen |-> body.len + l.len + t.len]

\* faulty variant: no check of size() == 0
wireEncodeNoEmptyCheck(dels, tag, type) ==
  IF ~isValidTlvType(type)
  THEN [err |-> "invalid_argument", what |-> "Unexpected TLV-TYPE",
        buf |-> <<>>, totalLen |-> 0]
  ELSE LET body == encodeLoop(NewEncoder(tag), dels, Len(dels), 0)
           l == prependVarNumber(body.enc, body.len)
           t == prependVarNumber(l.enc, type)
       IN [err |-> "none", what |-> "", buf |-> t.enc.buf,
           totalLen |-> body.len + l.len + t.len]

\* MPRList::wireEncode(encoder, type) on a fresh encoder of the given tag:
\* the exception thrown (or "none"), the encoder's bytes, the value returned
wireEncode(dels, tag, type) ==
  IF ~isValidTlvType(type)
  THEN [err |-> "invalid_argument", what |-> "Unexpected TLV-TYPE",
        buf |-> <<>>, totalLen |-> 0]
  ELSE IF Len(dels) = 0
  THEN [err |-> "Error", what |-> "Empty MPRList", buf |-> <<>>, totalLen |-> 0]
  ELSE LET body == encodeLoop(NewEncoder(tag), dels, Len(dels), 0)
           l == prependVarNumber(body.enc, body.len)
           t == prependVarNumber(l.enc, type)
       IN [err |-> "none", what |-> "", buf |-> t.enc.buf,
           totalLen |-> body.len + l.len + t.len]

\* faulty variant: a child that cannot be decoded is passed over, not thrown at
RECURSIVE decodeLoopSkipsMalformed(_, _, _, _)
decodeLoopSkipsMalformed(dels, isSorted, elements, i) ==
  IF i > Len(elements)
  THEN [err |-> "none", what |-> "", at |-> 0, dels |-> dels]
  ELSE
    LET del == elements[i]
        parsed == Block_parse(del)
        val == parsed.elements
    IN IF \/ Block_type(del) # tlv_LinkDelegation
          \/ ~parsed.ok
          \/ Len(val) < 2
          \/ Block_type(val[1]) # tlv_LinkPreference
          \/ ~readNonNegativeInteger(val[1]).ok
          \/ Block_type(val[2]) # tlv_Name
          \/ ~Name_wireDecode(val[2]).ok
       THEN decodeLoopSkipsMalformed(dels, isSorted, elements, i + 1)
       ELSE decodeLoopSkipsMalformed(
              insertImpl(dels, isSorted, readNonNegativeInteger(val[1]).value,
                         Name_wireDecode(val[2]).name),
              isSorted, elements, i + 1)

\* the loop of wireDecode over block.elements(), from element i on: the
\* exception thrown (or "none"), the element it was thrown at, the vector
RECURSIVE decodeLoop(_, _, _, _)
decodeLoop(dels, isSorted, elements, i) ==
  IF i > Len(elements)
  THEN [err |-> "none", what |-> "", at |-> 0, dels |-> dels]
  ELSE
    LET del == elements[i]
        parsed == Block_parse(del)
        val == parsed.elements
        fail(e, w) == [err |-> e, what |-> w, at |-> i, dels |-> dels]
    IN IF Block_type(del) # tlv_LinkDelegation
       THEN fail("Error", "Unexpected TLV-TYPE")
       ELSE IF ~parsed.ok
       THEN fail("tlv::Error", "parse")
       ELSE IF Len(val) < 1 \/ Block_type(val[1]) # tlv_LinkPreference
       THEN fail("Error", "Missing Preference field in Delegation")
       ELSE IF ~readNonNegativeInteger(val[1]).ok
       THEN fail("Error", "Invalid Preference field in Delegation")
       ELSE IF Len(val) < 2 \/ Block_type(val[2]) # tlv_Name
       THEN fail("Error", "Missing Name field in Delegation")
       ELSE IF ~Name_wireDecode(val[2]).ok
       THEN fail("Error", "Invalid Name field in Delegation")
       ELSE decodeLoop(insertImpl(dels, isSorted,
                                  readNonNegativeInteger(val[1]).value,
                                  Name_wireDecode(val[2]).name),
                       isSorted, elements, i + 1)

\* faulty variant: no check of size() == 0 after the loop
wireDecodeNoEmptyCheck(dels, isSorted, block, wantSort) ==
  IF ~isValidTlvType(Block_type(block))
  THEN [err |-> "Error", what |-> "Unexpected TLV-TYPE", at |-> 0,
        dels |-> dels, isSorted |-> isSorted]
  ELSE LET parsed == Block_parse(block)
           r == decodeLoop(<<>>, wantSort, parsed.elements, 1)
       IN IF ~parsed.ok
          THEN [err |-> "tlv::Error", what |-> "parse", at |-> 0,
                dels |-> <<>>, isSorted |-> wantSort]
          ELSE [err |-> r.err, what |-> r.what, at |-> r.at,
                dels |-> r.dels, isSorted |-> wantSort]

\* faulty variant: m_dels is not cleared
wireDecodeKeepsOld(dels, isSorted, block, wantSort) ==
  IF ~isValidTlvType(Block_type(block))
  THEN [err |-> "Error", what |-> "Unexpected TLV-TYPE", at |-> 0,
        dels |-> dels, isSorted |-> isSorted]
  ELSE LET parsed == Block_parse(block)
           r == decodeLoop(dels, wantSort, parsed.elements, 1)
       IN IF ~parsed.ok
          THEN [err |-> "tlv::Error", what |-> "parse", at |-> 0,
                dels |-> <<>>, isSorted |-> wantSort]
          ELSE IF r.err = "none" /\ Len(r.dels) = 0
          THEN [err |-> "Error", what |-> "Empty MPRList", at |-> 0,
                dels |-> r.dels, isSorted |-> wantSort]
          ELSE [err |-> r.err, what |-> r.what, at |-> r.at,
                dels |-> r.dels, isSorted |-> wantSort]

\* faulty variant: the delegations are appended whatever wantSort says
wireDecodeAppendsOnly(dels, isSorted, block, wantSort) ==
  IF ~isValidTlvType(Block_type(block))
  THEN [err |-> "Error", what |-> "Unexpected TLV-TYPE", at |-> 0,
        dels |-> dels, isSorted |-> isSorted]
  ELSE LET parsed == Block_parse(block)
           r == decodeLoop(<<>>, FALSE, parsed.elements, 1)
       IN IF ~parsed.ok
          THEN [err |-> "tlv::Error", what |-> "parse", at |-> 0,
                dels |-> <<>>, isSorted |-> wantSort]
          ELSE IF r.err = "none" /\ Len(r.dels) = 0
          THEN [err |-> "Error", what |-> "Empty MPRList", at |-> 0,
                dels |-> r.dels, isSorted |-> wantSort]
          ELSE [err |-> r.err, what |-> r.what, at |-> r.at,
                dels |-> r.dels, isSorted |-> wantSort]

\* faulty variant: m_isSorted is assigned when the decoding is done, so a
\* call that throws keeps the flag it found
wireDecodeFlagOnReturn(dels, isSorted, block, wantSort) ==
  IF ~isValidTlvType(Block_type(block))
  THEN [err |-> "Error", what |-> "Unexpected TLV-TYPE", at |-> 0,
        dels |-> dels, isSorted |-> isSorted]
  ELSE LET parsed == Block_parse(block)
           r == decodeLoop(<<>>, wantSort, parsed.elements, 1)
       IN IF ~parsed.ok
          THEN [err |-> "tlv::Error", what |-> "parse", at |-> 0,
                dels |-> <<>>, isSorted |-> isSorted]
          ELSE IF r.err = "none" /\ Len(r.dels) = 0
          THEN [err |-> "Error", what |-> "Empty MPRList", at |-> 0,
                dels |-> r.dels, isSorted |-> isSorted]
          ELSE [err |-> r.err, what |-> r.what, at |-> r.at,
                dels |-> r.dels,
                isSorted |-> IF r.err = "none" THEN wantSort ELSE isSorted]

\* faulty variant: lines 111-112 run before the check of block.type()
wireDecodeClearsFirst(dels, isSorted, block, wantSort) ==
  IF ~isValidTlvType(Block_type(block))
  THEN [err |-> "Error", what |-> "Unexpected TLV-TYPE", at |-> 0,
        dels |-> <<>>, isSorted |-> wantSort]
  ELSE LET parsed == Block_parse(block)
           r == decodeLoop(<<>>, wantSort, parsed.elements, 1)
       IN IF ~parsed.ok
          THEN [err |-> "tlv::Error", what |-> "parse", at |-> 0,
                dels |-> <<>>, isSorted |-> wantSort]
          ELSE IF r.err = "none" /\ Len(r.dels) = 0
          THEN [err |-> "Error", what |-> "Empty MPRList", at |-> 0,
                dels |-> r.dels, isSorted |-> wantSort]
          ELSE [err |-> r.err, what |-> r.what, at |-> r.at,
                dels |-> r.dels, isSorted |-> wantSort]

\* MPRList::wireDecode(block, wantSort) on a list holding dels, isSorted: the
\* exception thrown (or "none") and the list's fields when the call ends
wireDecode(dels, isSorted, block, wantSort) ==
  IF ~isValidTlvType(Block_type(block))
  THEN [err |-> "Error", what |-> "Unexpected TLV-TYPE", at |-> 0,
        dels |-> dels, isSorted |-> isSorted]
  ELSE LET parsed == Block_parse(block)
           r == decodeLoop(<<>>, wantSort, parsed.elements, 1)
       IN IF ~parsed.ok
          THEN [err |-> "tlv::Error", what |-> "parse", at |-> 0,
                dels |-> <<>>, isSorted |-> wantSort]
          ELSE IF r.err = "none" /\ Len(r.dels) = 0
          THEN [err |-> "Error", what |-> "Empty MPRList", at |-> 0,
                dels |-> r.dels, isSorted |-> wantSort]
          ELSE [err |-> r.err, what |-> r.what, at |-> r.at,
                dels |-> r.dels, isSorted |-> wantSort]

(***************************************************************************)
(* Blocks a caller can hand to wireDecode.                                  *)
(***************************************************************************)
PreferenceWire(p) == Tlv(tlv_LinkPreference, NonNegativeInteger(p))

DelegationWire(p, n) == Tlv(tlv_LinkDelegation, PreferenceWire(p) \o NameWire(n))

\* a run of well-formed children, not in Delegation order
GoodRun ==
  [i \in 1..MaxKids |->
     IF i % 2 = 1 THEN DelegationWire(256, <<>>) ELSE DelegationWire(0, << <<1>> >>)]

\* a delegation whose Name is missing
PreferenceOnly == Tlv(tlv_LinkDelegation, PreferenceWire(0))

\* the blocks received from the network: no child under either accepted
\* tag, a well-formed list under a tag that is not accepted, a well-formed
\* list, and a list whose last child is malformed
ReceivedBlocks ==
  { Tlv(tlv_MPRList, <<>>),
    Tlv(tlv_Content, <<>>),
    Tlv(tlv_Name, Concat(GoodRun)),
    Tlv(tlv_MPRList, Concat(GoodRun)),
    Tlv(tlv_Content, Concat(Append(SubSeq(GoodRun, 1, MaxKids - 1), PreferenceOnly))) }

\* children the loop of wireDecode throws at, one for each throw of lines
\* 116-143: not a delegation; no element; Name before Preference; no second
\* element; a second element that is no Name; a Preference of three bytes;
\* a Name whose component is truncated; an element truncated (del.parse())
MalformedKids ==
  { Tlv(tlv_Name, <<>>),
    Tlv(tlv_LinkDelegation, <<>>),
    Tlv(tlv_LinkDelegation, NameWire(<<>>) \o PreferenceWire(0)),
    PreferenceOnly,
    Tlv(tlv_LinkDelegation, PreferenceWire(0) \o PreferenceWire(0)),
    Tlv(tlv_LinkDelegation, Tlv(tlv_LinkPreference, <<0, 0, 0>>) \o NameWire(<<>>)),
    Tlv(tlv_LinkDelegation,
        PreferenceWire(0) \o Tlv(tlv_Name, <<tlv_GenericNameComponent, 5, 0>>)),
    Tlv(tlv_LinkDelegation, <<tlv_LinkPreference, 5, 0>>) }

\* delegations with elements after Preference and Name
ExtraKids ==
  { Tlv(tlv_LinkDelegation,
        PreferenceWire(0) \o NameWire(<<>>) \o Tlv(tlv_Content, <<9>>)),
    Tlv(tlv_LinkDelegation,
        PreferenceWire(256) \o NameWire(<< <<1>> >>) \o NameWire(<<>>)
          \o PreferenceWire(0)) }

\* what follows the child under test: nothing, a well-formed child, a child
\* of another type, a delegation without Name, bytes that are no whole
\* element (block.parse() of line 114 throws)
Tails ==
  { <<>>,
    <<DelegationWire(0, <<>>)>>,
    <<Tlv(tlv_Content, <<>>)>>,
    <<PreferenceOnly>>,
    << <<tlv_LinkDelegation, 9>> >> }

\* blocks of an accepted type: a run of well-formed children, then a
\* malformed child or one with extra elements, then a tail
DecodeBlocks ==
  { Tlv(IF j % 2 = 0 THEN tlv_MPRList ELSE tlv_Content,
        Concat(SubSeq(GoodRun, 1, j) \o <<kid>> \o tail)) :
      j \in 0..MaxKids, kid \in MalformedKids \cup ExtraKids, tail \in Tails }

(***************************************************************************)
(* State.                                                                  *)
(***************************************************************************)
VARIABLES
  m_dels,        \* MPRList::m_dels
  m_isSorted,    \* MPRList::m_isSorted
  wire,          \* the bytes the last materializing wireEncode produced,
                 \* <<>> once the caller has moved on to another call
  encoded,       \* the vector those bytes were encoded from
  call,          \* the last call on the list: arguments, result, exception
  pre_dels,      \* the fields the last call started from; a call that
  pre_isSorted,  \* discards them (a constructor, wireDecode past lines
                 \* 111-112) records the fields after the discard
  decoded,       \* the list's contents come from a wireDecode that returned
  assigned       \* the last assignment to m_isSorted: the member function
                 \* that made it and the value it gave

vars ==
  <<m_dels, m_isSorted, wire, encoded, call, pre_dels, pre_isSorted, decoded,
    assigned>>

NoCall ==
  [op |-> "MPRList()", preference |-> nullopt, name |-> <<>>, onConflict |-> "",
   type |-> 0, tag |-> "", wantSort |-> FALSE, block |-> <<>>, init |-> <<>>,
   inserted |-> FALSE, size |-> 0, err |-> "none", what |-> "", at |-> 0]

\* MPRList::MPRList()
ConstructDefault ==
  /\ m_dels = <<>>
  /\ m_isSorted = TRUE
  /\ call = NoCall
  /\ decoded = FALSE
  /\ assigned = [by |-> "MPRList", value |-> TRUE]

\* MPRList::MPRList(std::initializer_list<Delegation> dels)
ConstructList(init) ==
  /\ m_dels = constructLoop(<<>>, init, 1)
  /\ m_isSorted = TRUE
  /\ call = [NoCall EXCEPT !.op = "MPRList(dels)", !.init = init]
  /\ decoded = FALSE
  /\ assigned = [by |-> "MPRList", value |-> TRUE]

\* MPRList::MPRList(const Block& block, bool wantSort): wireDecode on an
\* object whose m_isSorted is not initialized; the object comes to exist
\* only when wireDecode returns
ConstructDecode(block, wantSort) ==
  \E uninit \in BOOLEAN :
    LET r == wireDecode(<<>>, uninit, block, wantSort)
    IN /\ r.err = "none"
       /\ m_dels = r.dels
       /\ m_isSorted = r.isSorted
       /\ call = [NoCall EXCEPT !.op = "MPRList(block)", !.block = block,
                                !.wantSort = wantSort]
       /\ decoded = TRUE
       /\ assigned = [by |-> "wireDecode", value |-> wantSort]

\* the list after its construction, by any of the three constructors; no
\* call precedes it, and no bytes have been encoded
Init ==
  /\ wire = <<>>
  /\ encoded = <<>>
  /\ pre_dels = <<>>
  /\ pre_isSorted = TRUE
  /\ \/ ConstructDefault
     \/ \E init \in UNION {[1..k -> Delegation] : k \in 1..MaxInit} : ConstructList(init)
     \/ \E block \in ReceivedBlocks, wantSort \in BOOLEAN : ConstructDecode(block, wantSort)

\* MPRList::insert(preference, name, onConflict)
Insert(preference, name, onConflict) ==
  \E r \in {insert(m_dels, m_isSorted, preference, name, onConflict)} :
     /\ Len(r.dels) <= MaxLen
     /\ m_dels' = r.dels
     /\ m_isSorted' = m_isSorted
     /\ wire' = <<>>
     /\ encoded' = <<>>
     /\ call' = [NoCall EXCEPT !.op = "insert", !.preference = some(preference),
                               !.name = name, !.onConflict = onConflict,
                               !.inserted = r.ret]
     /\ pre_dels' = m_dels
     /\ pre_isSorted' = m_isSorted
     /\ UNCHANGED <<decoded, assigned>>

\* MPRList::erase(preference, name), erase(del) and, with nullopt, erase(name)
Erase(preference, name) ==
  \E r \in {eraseImpl(m_dels, preference, name)} :
     /\ m_dels' = r.dels
     /\ m_isSorted' = m_isSorted
     /\ wire' = <<>>
     /\ encoded' = <<>>
     /\ call' = [NoCall EXCEPT !.op = "erase", !.preference = preference,
                               !.name = name, !.size = r.nErased]
     /\ pre_dels' = m_dels
     /\ pre_isSorted' = m_isSorted
     /\ UNCHANGED <<decoded, assigned>>

\* MPRList::sort()
Sort ==
  \E r \in {sort(m_dels, m_isSorted)} :
     /\ m_dels' = r.dels
     /\ m_isSorted' = r.isSorted
     /\ wire' = <<>>
     /\ encoded' = <<>>
     /\ call' = [NoCall EXCEPT !.op = "sort"]
     /\ pre_dels' = m_dels
     /\ pre_isSorted' = m_isSorted
     /\ assigned' = IF m_isSorted THEN assigned
                     ELSE [by |-> "sort", value |-> r.isSorted]
     /\ UNCHANGED decoded

\* MPRList::wireEncode(encoder, type), a const member: the encoder's bytes
\* are kept as the wire when the call returns from the materializing encoder
WireEncode(tag, type) ==
  \E r \in {wireEncode(m_dels, tag, type)} :
     /\ UNCHANGED <<m_dels, m_isSorted, decoded, assigned>>
     /\ wire' = IF r.err = "none" /\ tag = "EncoderTag" THEN r.buf ELSE <<>>
     /\ encoded' = IF r.err = "none" /\ tag = "EncoderTag" THEN m_dels ELSE <<>>
     /\ call' = [NoCall EXCEPT !.op = "wireEncode", !.tag = tag, !.type = type,
                               !.size = r.totalLen, !.err = r.err,
                               !.what = r.what]
     /\ pre_dels' = m_dels
     /\ pre_isSorted' = m_isSorted

\* MPRList::wireDecode(block, wantSort)
WireDecode(block, wantSort) ==
  \E r \in {wireDecode(m_dels, m_isSorted, block, wantSort)} :
    LET accepted == isValidTlvType(Block_type(block))
    IN /\ m_dels' = r.dels
       /\ m_isSorted' = r.isSorted
       /\ wire' = IF block = wire THEN wire ELSE <<>>
       /\ encoded' = IF block = wire THEN encoded ELSE <<>>
       /\ call' = [NoCall EXCEPT !.op = "wireDecode", !.block = block,
                                 !.wantSort = wantSort, !.err = r.err,
                                 !.what = r.what, !.at = r.at]
       /\ pre_dels' = IF accepted THEN <<>> ELSE m_dels
       /\ pre_isSorted' = IF accepted THEN wantSort ELSE m_isSorted
       /\ decoded' = IF accepted THEN r.err = "none" ELSE decoded
       /\ assigned' = IF accepted
                       THEN [by |-> "wireDecode", value |-> r.isSorted]
                       ELSE assigned

Next ==
  \/ \E preference \in Prefs, name \in Names, onConflict \in InsertConflictResolution :
       Insert(preference, name, onConflict)
  \/ \E preference \in {nullopt} \cup {some(p) : p \in Prefs}, name \in Names :
       Erase(preference, name)
  \/ Sort
  \/ \E tag \in EncodingTag, type \in {tlv_Content, tlv_MPRList, tlv_Name} :
       WireEncode(tag, type)
  \/ \E block \in ReceivedBlocks, wantSort \in BOOLEAN : WireDecode(block, wantSort)
  \/ \E wantSort \in BOOLEAN : wire # <<>> /\ WireDecode(wire, wantSort)

Spec == Init /\ [][Next]_vars

\* the list under wireDecode calls alone, on the malformed blocks
NextDecode ==
  \E block \in DecodeBlocks, wantSort \in BOOLEAN : WireDecode(block, wantSort)

SpecDecode == Init /\ [][NextDecode]_vars

(***************************************************************************)
(* Vocabulary of the properties.                                           *)
(***************************************************************************)
\* non-decreasing Delegation order: entry[i] <= entry[i+1] for adjacent i
Sorted(dels) ==
  \A i \in 1..(Len(dels) - 1) : DelegationLessEq(dels[i], dels[i + 1])

Count(dels, d) == Cardinality({i \in 1..Len(dels) : dels[i] = d})

CountName(dels, name) == Cardinality({i \in 1..Len(dels) : dels[i].name = name})

Entries(dels) == {dels[i] : i \in 1..Len(dels)}

\* the same multiset of (preference, name) entries
SameEntries(a, b) ==
  /\ Len(a) = Len(b)
  /\ \A d \in Entries(a) \cup Entries(b) : Count(a, d) = Count(b, d)

\* the entries with another name, in their order
Others(dels, name) == SelectSeq(dels, LAMBDA d : d.name # name)

\* the argument of the last insert, as a Delegation
Inserted == [preference |-> call.preference.value, name |-> call.name]

\* whether the last erase was asked to remove d
Matches(d) ==
  /\ d.name = call.name
  /\ call.preference.has => d.preference = call.preference.value

DecodeReturned == call.op \in {"wireDecode", "MPRList(block)"} /\ call.err = "none"

\* insert(entry, INS_REPLACE) for the entries of init, the last one last
RECURSIVE ReplaceAll(_)
ReplaceAll(init) ==
  IF init = <<>> THEN <<>>
  ELSE insert(ReplaceAll(SubSeq(init, 1, Len(init) - 1)), TRUE,
              init[Len(init)].preference, init[Len(init)].name,
              "INS_REPLACE").dels

\* the children of a block and the elements of a child, as parse() yields them
Children(block) == Block_parse(block).elements

Grandchildren(child) == Block_parse(child).elements

\* the defects of a child
NotDelegation(child) == Block_type(child) # tlv_LinkDelegation

NoPreferenceFirst(child) ==
  \/ Len(Grandchildren(child)) = 0
  \/ Block_type(Grandchildren(child)[1]) # tlv_LinkPreference

NoNameSecond(child) ==
  /\ ~NoPreferenceFirst(child)
  /\ \/ Len(Grandchildren(child)) = 1
     \/ Block_type(Grandchildren(child)[2]) # tlv_Name

\* a child that is a delegation of a Preference holding a number, then a
\* Name holding components, then anything
Decodes(child) ==
  /\ ~NotDelegation(child)
  /\ Block_parse(child).ok
  /\ ~NoPreferenceFirst(child)
  /\ ~NoNameSecond(child)
  /\ readNonNegativeInteger(Grandchildren(child)[1]).ok
  /\ Name_wireDecode(Grandchildren(child)[2]).ok

\* the Delegation such a child carries
ChildDelegation(child) ==
  [preference |-> readNonNegativeInteger(Grandchildren(child)[1]).value,
   name |-> Name_wireDecode(Grandchildren(child)[2]).name]

\* the first child, in wire order, that is no such delegation; 0 if none
FirstOffending(kids) ==
  IF \A i \in 1..Len(kids) : Decodes(kids[i])
  THEN 0
  ELSE CHOOSE i \in 1..Len(kids) :
         ~Decodes(kids[i]) /\ \A j \in 1..(i - 1) : Decodes(kids[j])

\* the delegations wireDecode inserts from kids: those before the first
\* offending child, all of them if there is none
DecodedPrefix(kids) ==
  [i \in 1..(IF FirstOffending(kids) = 0 THEN Len(kids) ELSE FirstOffending(kids) - 1)
     |-> ChildDelegation(kids[i])]

\* after is before with d added at one position: behind every entry of
\* before that is less than or equal to d and ahead of every greater one if
\* sorted, at the end if not
Placed(before, after, d, sorted) ==
  \E k \in 1..Len(after) :
    /\ after[k] = d
    /\ before = SubSeq(after, 1, k - 1) \o SubSeq(after, k + 1, Len(after))
    /\ IF sorted
       THEN /\ \A i \in 1..(k - 1) : DelegationLessEq(after[i], d)
            /\ \A i \in (k + 1)..Len(after) : DelegationLess(d, after[i])
       ELSE k = Len(after)

\* the entries of seq added to acc one after the other, each one placed so
RECURSIVE PlaceAll(_, _, _)
PlaceAll(acc, seq, sorted) ==
  IF seq = <<>> THEN acc
  ELSE PlaceAll(CHOOSE after \in {SubSeq(acc, 1, k - 1) \o <<Head(seq)>>
                                    \o SubSeq(acc, k, Len(acc)) : k \in 1..(Len(acc) + 1)} :
                  Placed(acc, after, Head(seq), sorted),
                Tail(seq), sorted)

\* the last wireDecode got past the check of block.type() and block.parse()
DecodeEntered ==
  /\ call.op = "wireDecode"
  /\ Block_type(call.block) \in {tlv_Content, tlv_MPRList}
  /\ Block_parse(call.block).ok

(***************************************************************************)
(* The claims.                                                             *)
(***************************************************************************)
\* C1: in every reachable state, whenever isSorted() is true the entries are
\* in non-decreasing Delegation order.
C1_SortedWhenFlagged == m_isSorted => Sorted(m_dels)

\* an insert into a full-length sorted list that landed before the end
C1_Witness ==
  /\ call.op = "insert"
  /\ m_isSorted
  /\ Len(m_dels) = MaxLen
  /\ m_dels[1] # m_dels[MaxLen]
  /\ m_dels[MaxLen] # Inserted

\* C2: insert(p2, name, REPLACE) returns true and leaves exactly one entry
\* with that name, of preference p2; the entries with another name are all
\* kept, in their relative order.
C2_Replace ==
  (call.op = "insert" /\ call.onConflict = "INS_REPLACE") =>
    /\ call.inserted
    /\ CountName(m_dels, call.name) = 1
    /\ Count(m_dels, Inserted) = 1
    /\ Others(m_dels, call.name) = Others(pre_dels, call.name)

\* REPLACE on an unsorted list holding the name twice, at two preferences,
\* among entries with another name
C2_Witness ==
  /\ call.op = "insert"
  /\ call.onConflict = "INS_REPLACE"
  /\ ~pre_isSorted
  /\ \E i, j \in 1..Len(pre_dels) :
       /\ pre_dels[i].name = call.name
       /\ pre_dels[j].name = call.name
       /\ pre_dels[i].preference # pre_dels[j].preference
  /\ Len(Others(pre_dels, call.name)) >= 1

\* C3: insert(p2, name, SKIP) returns false and changes neither the entries
\* nor the flag when an entry has that name; otherwise it adds exactly the
\* one entry (p2, name) and returns true.
C3_Skip ==
  (call.op = "insert" /\ call.onConflict = "INS_SKIP") =>
    IF CountName(pre_dels, call.name) > 0
    THEN /\ ~call.inserted
         /\ m_dels = pre_dels
         /\ m_isSorted = pre_isSorted
    ELSE /\ call.inserted
         /\ Len(m_dels) = Len(pre_dels) + 1
         /\ Count(m_dels, Inserted) = 1
         /\ CountName(m_dels, call.name) = 1
         /\ Others(m_dels, call.name) = pre_dels

\* SKIP of a name the list holds at another preference only
C3_Witness ==
  /\ call.op = "insert"
  /\ call.onConflict = "INS_SKIP"
  /\ CountName(pre_dels, call.name) > 0
  /\ Count(pre_dels, Inserted) = 0
  /\ ~call.inserted

\* C4: insert(p2, name, APPEND) returns true, removes nothing and adds one
\* entry: size() and the number of entries with that name grow by one, also
\* when the same (p2, name) is already there.
C4_Append ==
  (call.op = "insert" /\ call.onConflict = "INS_APPEND") =>
    /\ call.inserted
    /\ Len(m_dels) = Len(pre_dels) + 1
    /\ CountName(m_dels, call.name) = CountName(pre_dels, call.name) + 1
    /\ \A d \in Entries(m_dels) \cup Entries(pre_dels) :
         Count(m_dels, d) = Count(pre_dels, d) + (IF d = Inserted THEN 1 ELSE 0)

\* APPEND of an entry the list already holds
C4_Witness ==
  /\ call.op = "insert"
  /\ call.onConflict = "INS_APPEND"
  /\ Count(pre_dels, Inserted) >= 1
  /\ Count(m_dels, Inserted) = Count(pre_dels, Inserted) + 1

\* C5: erase removes exactly the entries that match (the name, and for the
\* two-argument forms the preference too), keeps the others in their order,
\* returns the number removed and leaves isSorted as it was.
C5_Erase ==
  call.op = "erase" =>
    /\ m_dels = SelectSeq(pre_dels, LAMBDA d : ~Matches(d))
    /\ call.size = Len(pre_dels) - Len(m_dels)
    /\ m_isSorted = pre_isSorted

\* erase(preference, name) that removed an entry and left the same name at
\* another preference
C5_Witness ==
  /\ call.op = "erase"
  /\ call.preference.has
  /\ call.size >= 1
  /\ CountName(m_dels, call.name) >= 1
  /\ Len(m_dels) >= 2

\* C6: after sort() isSorted() is true, the entries are in non-decreasing
\* Delegation order, and they are the multiset of entries held before.
C6_Sort ==
  call.op = "sort" =>
    /\ m_isSorted
    /\ Sorted(m_dels)
    /\ SameEntries(m_dels, pre_dels)

\* unsorted [(256,"/"), (0,"/%01")] sorted into [(0,"/%01"), (256,"/")]
C6_Witness ==
  /\ call.op = "sort"
  /\ ~pre_isSorted
  /\ pre_dels = <<[preference |-> 256, name |-> <<>>],
                  [preference |-> 0, name |-> << <<1>> >>]>>
  /\ m_dels = <<[preference |-> 0, name |-> << <<1>> >>],
                [preference |-> 256, name |-> <<>>]>>

\* C7: sort() on a list whose isSorted() is true changes neither the
\* entries nor the flag.
C7_SortIdempotent ==
  (call.op = "sort" /\ pre_isSorted) =>
    /\ m_dels = pre_dels
    /\ m_isSorted = pre_isSorted

\* sort() called on a sorted list of several entries
C7_Witness ==
  /\ call.op = "sort"
  /\ pre_isSorted
  /\ Len(pre_dels) >= 2
  /\ pre_dels[1] # pre_dels[2]

\* C8: decoding the bytes wireEncode produced from a non-empty list L, under
\* either accepted tag, succeeds; with wantSort false it yields L's entries
\* in L's order, with wantSort true L's multiset of entries in ascending
\* Delegation order; wireEncode leaves L unchanged.
C8_RoundTrip ==
  /\ (call.op = "wireDecode" /\ wire # <<>>) =>
       /\ call.block = wire
       /\ Len(encoded) > 0
       /\ call.err = "none"
       /\ m_isSorted = call.wantSort
       /\ IF call.wantSort
          THEN Sorted(m_dels) /\ SameEntries(m_dels, encoded)
          ELSE m_dels = encoded
  /\ call.op = "wireEncode" =>
       /\ m_dels = pre_dels
       /\ m_isSorted = pre_isSorted
       /\ (call.err = "none" /\ call.tag = "EncoderTag") =>
            /\ encoded = m_dels
            /\ Block_type(wire) = call.type
            /\ Len(wire) = call.size

\* the bytes of an unsorted list of MaxLen entries, one of them twice,
\* decoded with wantSort false
C8_Witness ==
  /\ call.op = "wireDecode"
  /\ wire # <<>>
  /\ ~call.wantSort
  /\ Len(encoded) = MaxLen
  /\ ~Sorted(encoded)
  /\ \E d \in Entries(encoded) : Count(encoded, d) = 2

\* C9 as stated: a list filled by a wireDecode that returned is never empty,
\* whatever insert, erase or sort calls follow.
C9_DecodedNeverEmpty == decoded => Len(m_dels) > 0

\* C9 as amended: size() > 0 when wireDecode returns without error, and
\* insert, sort and wireEncode keep a non-empty list non-empty; only erase
\* can empty the list again.
C9_NonEmptyUntilErase ==
  /\ DecodeReturned => Len(m_dels) > 0
  /\ (call.op \in {"insert", "sort", "wireEncode"} /\ Len(pre_dels) > 0) =>
       Len(m_dels) > 0

\* a decoded list of one entry whose name was then replaced
C9_Witness ==
  /\ decoded
  /\ call.op = "insert"
  /\ call.onConflict = "INS_REPLACE"
  /\ Len(pre_dels) = 1
  /\ pre_dels[1].name = call.name
  /\ Len(m_dels) = 1

\* C10: wireEncode with an accepted tag on a list of zero entries fails with
\* Error, in both encoder modes; wireDecode of a block with an accepted tag
\* and zero children fails with Error; neither returns for zero delegations.
C10_EmptyRejected ==
  /\ (call.op = "wireEncode" /\ isValidTlvType(call.type) /\ Len(pre_dels) = 0) =>
       call.err = "Error"
  /\ (call.op = "wireEncode" /\ call.err = "none") => Len(m_dels) > 0
  /\ (/\ call.op = "wireDecode"
      /\ isValidTlvType(Block_type(call.block))
      /\ Block_value(call.block) = <<>>) =>
       /\ call.err = "Error"
       /\ m_dels = <<>>
  /\ (call.op = "wireDecode" /\ call.err = "none") => Len(m_dels) > 0

\* the estimator asked for the length of an empty list under an accepted tag
C10_Witness ==
  /\ call.op = "wireEncode"
  /\ call.tag = "EstimatorTag"
  /\ call.type = tlv_Content
  /\ Len(m_dels) = 0
  /\ call.err = "Error"

\* C11: wireEncode with a type that is neither Content nor MPRList fails
\* with std::invalid_argument for every list, the empty one too; wireDecode
\* of a block whose type is neither fails with Error; after either failure
\* the entries and isSorted are exactly those before the call.
C11_UnknownTagRejected ==
  /\ (call.op = "wireEncode" /\ call.type \notin {tlv_Content, tlv_MPRList}) =>
       /\ call.err = "invalid_argument"
       /\ m_dels = pre_dels
       /\ m_isSorted = pre_isSorted
  /\ (/\ call.op = "wireDecode"
      /\ Block_type(call.block) \notin {tlv_Content, tlv_MPRList}) =>
       /\ call.err = "Error"
       /\ call.what = "Unexpected TLV-TYPE"
       /\ m_dels = pre_dels
       /\ m_isSorted = pre_isSorted

\* a Name-typed block holding well-formed delegations, asked to be decoded
\* sorted into an unsorted list of several entries
C11_Witness ==
  /\ call.op = "wireDecode"
  /\ Block_type(call.block) = tlv_Name
  /\ Len(Block_value(call.block)) > 0
  /\ call.wantSort
  /\ call.err = "Error"
  /\ ~m_isSorted
  /\ Len(m_dels) >= 2

\* C12: wireDecode of a block of an accepted type throws Error at the first
\* child, in wire order, that does not decode, when that child is no
\* delegation, or its first element is absent or no Preference (a Name
\* placed first included), or its second element is absent or no Name; a
\* block whose children all hold Preference, then Name, then anything is
\* decoded, each child giving its (Preference, Name) alone.
C12_MalformedRejected ==
  DecodeEntered =>
    LET kids == Children(call.block)
        k == FirstOffending(kids)
    IN /\ (k > 0 /\ NotDelegation(kids[k])) =>
            /\ call.err = "Error"
            /\ call.at = k
            /\ call.what = "Unexpected TLV-TYPE"
       /\ (/\ k > 0
           /\ ~NotDelegation(kids[k])
           /\ Block_parse(kids[k]).ok
           /\ NoPreferenceFirst(kids[k])) =>
            /\ call.err = "Error"
            /\ call.at = k
            /\ call.what = "Missing Preference field in Delegation"
       /\ (/\ k > 0
           /\ ~NotDelegation(kids[k])
           /\ Block_parse(kids[k]).ok
           /\ NoNameSecond(kids[k])) =>
            /\ call.err = "Error"
            /\ call.at = k
            /\ call.what =
                 IF readNonNegativeInteger(Grandchildren(kids[k])[1]).ok
                 THEN "Missing Name field in Delegation"
                 ELSE "Invalid Preference field in Delegation"
       /\ (k = 0 /\ Len(kids) > 0) =>
            /\ call.err = "none"
            /\ SameEntries(m_dels, [i \in 1..Len(kids) |-> ChildDelegation(kids[i])])
            /\ ~call.wantSort =>
                 m_dels = [i \in 1..Len(kids) |-> ChildDelegation(kids[i])]

\* a block whose second child holds Name before Preference and whose third
\* child is no delegation: thrown at the second
C12_Witness ==
  /\ DecodeEntered
  /\ Len(Children(call.block)) = 3
  /\ Decodes(Children(call.block)[1])
  /\ Len(Grandchildren(Children(call.block)[2])) = 2
  /\ Block_type(Grandchildren(Children(call.block)[2])[1]) = tlv_Name
  /\ Block_type(Grandchildren(Children(call.block)[2])[2]) = tlv_LinkPreference
  /\ NotDelegation(Children(call.block)[3])
  /\ call.err = "Error"
  /\ call.at = 2

\* C13: the list MPRList(dels) constructs has isSorted() true and holds,
\* in non-decreasing Delegation order, one entry for each name of dels, with
\* the preference of the last entry of dels that has the name; it is the
\* list that insert(entry, INS_REPLACE), entry by entry in the order of
\* dels, makes of the empty list.
C13_InitializerList ==
  call.op = "MPRList(dels)" =>
    /\ m_isSorted
    /\ Sorted(m_dels)
    /\ \A name \in Names :
         CountName(m_dels, name) = IF CountName(call.init, name) > 0 THEN 1 ELSE 0
    /\ \A i \in 1..Len(m_dels) :
         \E j \in 1..Len(call.init) :
           /\ call.init[j] = m_dels[i]
           /\ \A l \in (j + 1)..Len(call.init) : call.init[l].name # m_dels[i].name
    /\ m_dels = ReplaceAll(call.init)

\* an initializer list that gives one name twice, at two preferences, the
\* greater first
C13_Witness ==
  /\ call.op = "MPRList(dels)"
  /\ Len(call.init) = MaxInit
  /\ call.init[MaxInit].name = call.init[MaxInit - 1].name
  /\ call.init[MaxInit].preference < call.init[MaxInit - 1].preference
  /\ m_dels[1] = call.init[MaxInit]

\* C14: when wireDecode of a block of an accepted type throws at its k-th
\* child, or at the check of size() == 0 after the loop, the list holds
\* nothing it held before the call: it holds the delegations of the children
\* 1..k-1 and no other entry, in wire order if wantSort is false and in
\* ascending order if it is true, and isSorted() is the wantSort of the call.
C14_FailedDecodeLeavesPrefix ==
  (DecodeEntered /\ call.err # "none") =>
    LET kids == Children(call.block)
        k == FirstOffending(kids)
        prefix == [i \in 1..(IF k = 0 THEN 0 ELSE k - 1) |-> ChildDelegation(kids[i])]
    IN /\ m_isSorted = call.wantSort
       /\ call.at = k
       /\ k = 0 => (Len(kids) = 0 /\ call.what = "Empty MPRList")
       /\ IF call.wantSort
          THEN Sorted(m_dels) /\ SameEntries(m_dels, prefix)
          ELSE m_dels = prefix

\* a sorting decode thrown at the third child, the first two left in
\* ascending order, which is not their wire order
C14_Witness ==
  /\ DecodeEntered
  /\ call.err = "Error"
  /\ call.at = 3
  /\ call.wantSort
  /\ m_isSorted
  /\ Len(m_dels) = 2
  /\ m_dels[1] = ChildDelegation(Children(call.block)[2])
  /\ m_dels[2] = ChildDelegation(Children(call.block)[1])
  /\ m_dels[1] # m_dels[2]

\* C15: an entry added to a list whose isSorted() is true goes behind every
\* entry that is less than or equal to it and ahead of every greater one;
\* added to a list whose isSorted() is false it becomes the last entry.  This
\* holds for insert under each policy (INS_REPLACE adds after its erase, so
\* on an unsorted list the name moves to the end), for each delegation
\* wireDecode reads and for each entry sort() inserts again.
C15_InsertionPosition ==
  /\ (call.op = "insert" /\ call.inserted) =>
       Placed(IF call.onConflict = "INS_REPLACE"
              THEN Others(pre_dels, call.name)
              ELSE pre_dels,
              m_dels, Inserted, pre_isSorted)
  /\ (call.op = "insert" /\ call.onConflict = "INS_REPLACE" /\ ~pre_isSorted) =>
       /\ m_dels[Len(m_dels)] = Inserted
       /\ SubSeq(m_dels, 1, Len(m_dels) - 1) = Others(pre_dels, call.name)
  /\ (call.op = "sort" /\ ~pre_isSorted) =>
       m_dels = PlaceAll(<<>>, pre_dels, TRUE)
  /\ (/\ call.op \in {"wireDecode", "MPRList(block)"}
      /\ Block_type(call.block) \in {tlv_Content, tlv_MPRList}
      /\ Block_parse(call.block).ok) =>
       m_dels = PlaceAll(<<>>, DecodedPrefix(Children(call.block)), call.wantSort)

\* an entry inserted into a sorted list behind its equal and ahead of a
\* greater entry
C15_Witness ==
  /\ call.op = "insert"
  /\ call.onConflict = "INS_APPEND"
  /\ pre_isSorted
  /\ Len(m_dels) = 3
  /\ pre_dels[1] = Inserted
  /\ m_dels[2] = Inserted
  /\ DelegationLess(Inserted, m_dels[3])

\* C16: insert under each policy, each form of erase and wireEncode leave
\* isSorted() as it was; sort() makes it true; wireDecode makes it its
\* wantSort argument as soon as the type of the block is accepted, also when
\* it throws later, and leaves it alone when the type is not accepted.  So
\* the flag is always the value of its last assignment: it is false only if
\* that assignment was wireDecode's with wantSort false, and a list that
\* MPRList() or MPRList(dels) constructed is sorted for as long as no
\* wireDecode is accepted.
C16_FlagFrame ==
  /\ call.op \in {"insert", "erase", "wireEncode"} => m_isSorted = pre_isSorted
  /\ call.op = "sort" => m_isSorted
  /\ call.op = "wireDecode" =>
       m_isSorted = IF Block_type(call.block) \in {tlv_Content, tlv_MPRList}
                    THEN call.wantSort
                    ELSE pre_isSorted
  /\ m_isSorted = assigned.value
  /\ ~m_isSorted => assigned.by = "wireDecode"
  /\ assigned.by = "MPRList" => m_isSorted

\* a list left unsorted by a wireDecode that threw after its first child,
\* then grown out of order by an insert
C16_Witness ==
  /\ call.op = "insert"
  /\ ~m_isSorted
  /\ ~decoded
  /\ assigned = [by |-> "wireDecode", value |-> FALSE]
  /\ ~Sorted(m_dels)

\* C17: when wireDecode(block, false) has returned and sort() is the next
\* call, the list is in the state wireDecode(block, true) returns in: the
\* same entries in the same sequence, isSorted() true.
C17_DecodeThenSort ==
  [][(/\ DecodeReturned
      /\ ~call.wantSort
      /\ call'.op = "sort") =>
       /\ wireDecode(m_dels, m_isSorted, call.block, TRUE).err = "none"
       /\ m_dels' = wireDecode(m_dels, m_isSorted, call.block, TRUE).dels
       /\ m_isSorted' = wireDecode(m_dels, m_isSorted, call.block, TRUE).isSorted
       /\ m_isSorted']_vars

\* sort() of a list that a wireDecode left in wire order, the greater entry
\* first
C17_Witness ==
  /\ call.op = "sort"
  /\ decoded
  /\ assigned.by = "sort"
  /\ ~pre_isSorted
  /\ Len(pre_dels) >= 2
  /\ DelegationLess(pre_dels[2], pre_dels[1])
  /\ m_dels[1] = pre_dels[2]

\* C18: the sequence of a list whose isSorted() is true is fixed by the
\* entries it holds: every arrangement of the same entries that is in
\* non-decreasing Delegation order, which is what another sorted list of
\* these entries holds, compares equal to it under operator==; and after
\* insert(b, INS_APPEND) on a sorted list that holds a, the list equals the
\* one that results when b is inserted before a.
C18_SortedDeterminedByEntries ==
  /\ m_isSorted =>
       \A f \in Permutations(1..Len(m_dels)) :
         Sorted([i \in 1..Len(m_dels) |-> m_dels[f[i]]]) =>
           operatorEq([i \in 1..Len(m_dels) |-> m_dels[f[i]]], m_dels)
  /\ (call.op = "insert" /\ call.onConflict = "INS_APPEND" /\ pre_isSorted) =>
       \A k \in 1..Len(pre_dels) :
         operatorEq(
           insert(insert(SubSeq(pre_dels, 1, k - 1) \o SubSeq(pre_dels, k + 1, Len(pre_dels)),
                         TRUE, Inserted.preference, Inserted.name, "INS_APPEND").dels,
                  TRUE, pre_dels[k].preference, pre_dels[k].name, "INS_APPEND").dels,
           m_dels)

\* two entries of one preference appended to a sorted list, the one of the
\* lesser name last: it stands ahead of the other
C18_Witness ==
  /\ call.op = "insert"
  /\ call.onConflict = "INS_APPEND"
  /\ pre_isSorted
  /\ Len(m_dels) = 3
  /\ m_dels[1] = Inserted
  /\ m_dels[2].preference = Inserted.preference
  /\ m_dels[2].name # Inserted.name
  /\ Count(pre_dels, Inserted) = 0

====
